---- MODULE Spec2Model ----
(***************************************************************************)
(* Model of the Stripe webhook Lambda (src/lambda/lamda-function.py):      *)
(* get_raw_body, sha256_token and lambda_handler.                          *)
(*                                                                         *)
(* Python values are tagged records: None, int, str (a sequence of         *)
(* one-character strings), dict (a function from key names to values).     *)
(* A raised exception is the tagged value PyExc(name).                     *)
(***************************************************************************)
EXTENDS Integers, Sequences, FiniteSets, TLC

VARIABLES
    environ,       \* os.environ: the value of STRIPE_WEBHOOK_SECRET
    stdout,        \* every line printed so far, oldest first (append-only)
    last,          \* the latest invocation: request, outcome, lines it printed
    resolved,      \* per emitted document: the raw receipt_email / customer_id locals
    nInvocations,  \* number of lambda_handler invocations so far
    nVerified,     \* number of invocations whose construct_event call succeeded
    tokIn,         \* argument handed to sha256_token (pure-function specification)
    tokOut         \* its result, or NotRun before the call

vars == <<environ, stdout, last, resolved, nInvocations, nVerified, tokIn, tokOut>>

-----------------------------------------------------------------------------
(* Bounds *)

\* invocations of the handler in one behaviour
MaxInvocations == 2
\* longest string handed to sha256_token in the pure-function specification
MaxLen == 3

-----------------------------------------------------------------------------
(* Python values *)

PyNone == [t |-> "none"]
PyInt(i) == [t |-> "int", i |-> i]
PyStr(s) == [t |-> "str", s |-> s]
PyDict(d) == [t |-> "dict", d |-> d]
PyBool(b) == [t |-> "bool", b |-> b]
PyExc(e) == [t |-> "exc", e |-> e]

EmptyDict == PyDict([k \in {} |-> PyNone])

IsExc(v) == v.t = "exc"

\* bool(v): None, 0, "" and {} are falsy
Truthy(v) ==
    CASE v.t = "none" -> FALSE
      [] v.t = "int"  -> v.i # 0
      [] v.t = "str"  -> Len(v.s) > 0
      [] v.t = "dict" -> DOMAIN v.d # {}
      [] v.t = "bool" -> v.b
      [] OTHER        -> TRUE

\* a or b
PyOr(a, b) == IF Truthy(a) THEN a ELSE b

\* d.get(k) on a value: AttributeError when d has no .get
PyGet(d, k) ==
    IF d.t # "dict" THEN PyExc("AttributeError")
    ELSE IF k \in DOMAIN d.d THEN d.d[k] ELSE PyNone

-----------------------------------------------------------------------------
(* str.strip(), str.lower(), str.encode("utf-8"), hashlib.sha256().hexdigest() *)

Whitespace == {" ", "\t", "\n"}

UpperCase == <<"A","B","C","D","E","F","G","H","I","J","K","L","M",
               "N","O","P","Q","R","S","T","U","V","W","X","Y","Z">>
LowerCase == <<"a","b","c","d","e","f","g","h","i","j","k","l","m",
               "n","o","p","q","r","s","t","u","v","w","x","y","z">>

UpperChar(c) ==
    IF \E i \in DOMAIN LowerCase : LowerCase[i] = c
    THEN UpperCase[CHOOSE i \in DOMAIN LowerCase : LowerCase[i] = c]
    ELSE c

LowerChar(c) ==
    IF \E i \in DOMAIN UpperCase : UpperCase[i] = c
    THEN LowerCase[CHOOSE i \in DOMAIN UpperCase : UpperCase[i] = c]
    ELSE c

\* s.lower()
Lower(s) == [i \in 1..Len(s) |-> LowerChar(s[i])]

\* s.upper()
Upper(s) == [i \in 1..Len(s) |-> UpperChar(s[i])]

\* s.strip(): drop the leading and the trailing whitespace
Strip(s) ==
    LET keep == {i \in 1..Len(s) : s[i] \notin Whitespace}
    IN IF keep = {} THEN << >>
       ELSE LET lo == CHOOSE i \in keep : \A j \in keep : i <= j
                hi == CHOOSE i \in keep : \A j \in keep : j <= i
            IN SubSeq(s, lo, hi)

\* value.encode("utf-8"): every character of the model is ASCII, one byte each
EncodeUtf8(s) == s

\* hashlib.sha256(b).hexdigest(): an injective stand-in, tagged so that a digest
\* is a string no input string of the model equals
Sha256Hexdigest(b) == PyStr(<<"sha256:">> \o b)

\* the mutant of sha256_token: returns the normalized value instead of its digest
sha256_token_raw(value) ==
    IF ~Truthy(value) THEN PyNone
    ELSE IF value.t # "str" THEN PyExc("AttributeError")
    ELSE PyStr(Lower(Strip(value.s)))

\* sha256_token (lines 15-20)
sha256_token(value) ==
    IF ~Truthy(value) THEN PyNone
    ELSE IF value.t # "str" THEN PyExc("AttributeError")
    ELSE LET normalized == Lower(Strip(value.s))
         IN Sha256Hexdigest(EncodeUtf8(normalized))

-----------------------------------------------------------------------------
(* The inbound request body and the signature header                        *)
(*                                                                         *)
(* A byte string is PyBytes(b): b is the JSON document the bytes serialize *)
(* (a dict), or the characters themselves when they are not JSON.  A body  *)
(* text is characterized by what the two decodings of get_raw_body make of *)
(* it: its UTF-8 bytes, and its base64 decoding (bytes, or binascii.Error).*)
(* A well-formed signature header is PySig(payload, secret): the header    *)
(* whose v1 scheme is the HMAC of that payload under that secret.          *)

PyBytes(b) == [t |-> "bytes", b |-> b]
PyText(utf8, b64) == [t |-> "text", utf8 |-> utf8, b64 |-> b64]
PySig(payload, secret) == [t |-> "sig", payload |-> payload, secret |-> secret]

\* the default of event.get("body", ""): b64decode("") and "".encode() are both b""
EmptyText == PyText(PyBytes(PyStr(<< >>)), PyBytes(PyStr(<< >>)))

\* base64.b64decode(body)
B64Decode(body) ==
    IF body.t # "text" THEN PyExc("TypeError") ELSE body.b64

\* body.encode("utf-8")
Encode(body) ==
    IF body.t # "text" THEN PyExc("AttributeError") ELSE body.utf8

\* get_raw_body (lines 9-13)
get_raw_body(event) ==
    LET body == IF "body" \in DOMAIN event.d THEN event.d["body"] ELSE EmptyText
    IN IF Truthy(PyGet(event, "isBase64Encoded"))
       THEN B64Decode(body)
       ELSE Encode(body)

\* json.loads(payload) inside construct_event
JsonLoads(payload) ==
    IF payload.b.t = "dict" THEN payload.b ELSE PyExc("ValueError")

\* stripe.Webhook.construct_event (lines 40-44): the signature is verified first,
\* then the payload is parsed; the result is the event or the exception raised
construct_event(payload, sig_header, secret) ==
    IF sig_header.t = "sig" /\ sig_header.payload = payload /\ sig_header.secret = secret
    THEN JsonLoads(payload)
    ELSE PyExc("SignatureVerificationError")

-----------------------------------------------------------------------------
(* String literals of the source *)

stripe_signature == <<"s","t","r","i","p","e","-","s","i","g","n","a","t","u","r","e">>
Stripe_Signature == [stripe_signature EXCEPT ![1] = "S", ![8] = "S"]
PAYMENT_INTENT == <<"p","a","y","m","e","n","t","_","i","n","t","e","n","t">>
STRIPE == <<"s","t","r","i","p","e">>
WEBHOOK == <<"w","e","b","h","o","o","k">>

\* int(time.time()) at the n-th invocation: the clock advances between invocations
TimeTime(n) == 1700000000 + n

-----------------------------------------------------------------------------
(* lambda_handler *)

Response(status, body) == [t |-> "response", statusCode |-> status, body |-> body]

\* lines 112-116
OkResponse ==
    [t |-> "response", statusCode |-> 200,
     headers |-> [Content_Type |-> "application/json"],
     body |-> "{\"ok\": true}"]

\* what a path of the handler did: the value returned (or the exception that left
\* the handler), the lines printed, and the receipt_email / customer_id locals when
\* a document was printed
Outcome(ret, out, locals) == [ret |-> ret, out |-> out, locals |-> locals]

NoLocals == [receipt_email |-> PyNone, customer_id |-> PyNone]

\* lines 52-54
ValidLines(stripe_event) ==
    << [tag |-> "VALID Stripe webhook"],
       [tag |-> "Event ID:", val |-> PyGet(stripe_event, "id")],
       [tag |-> "Event type:", val |-> PyGet(stripe_event, "type")] >>

\* line 66
AmountMinor(obj) ==
    PyOr(PyOr(PyOr(PyGet(obj, "amount_received"), PyGet(obj, "amount")),
              PyGet(obj, "amount_total")),
         PyInt(0))

\* line 70
PaymentIntentId(obj) ==
    IF PyGet(obj, "object") # PyStr(PAYMENT_INTENT)
    THEN PyGet(obj, "payment_intent")
    ELSE PyGet(obj, "id")

\* lines 74-77
ReceiptEmail(obj) ==
    LET receipt_email == PyOr(PyGet(obj, "receipt_email"), PyGet(obj, "customer_email"))
    IN IF ~Truthy(receipt_email)
       THEN LET cust_details == PyOr(PyGet(obj, "customer_details"), EmptyDict)
            IN PyGet(cust_details, "email")
       ELSE receipt_email

\* lines 96-99
Pii(receipt_email, customer_id) ==
    [email_token |-> sha256_token(receipt_email),
     customer_id_token |-> sha256_token(customer_id)]

\* lines 79-107
Normalized(stripe_event, obj, received_at, receipt_email) ==
    [provider |-> PyStr(STRIPE),
     source |-> PyStr(WEBHOOK),
     event_id |-> PyGet(stripe_event, "id"),
     event_type |-> PyGet(stripe_event, "type"),
     received_at |-> PyInt(received_at),
     transaction |->
        [transaction_id |-> PyGet(obj, "id"),
         amount_minor |-> AmountMinor(obj),
         currency |-> PyGet(obj, "currency"),
         status |-> PyGet(obj, "status"),
         created |-> PyGet(obj, "created")],
     pii |-> Pii(receipt_email, PyGet(obj, "customer")),
     refs |->
        [payment_intent_id |-> PaymentIntentId(obj),
         charge_id |-> PyOr(PyGet(obj, "charge"), PyGet(obj, "latest_charge")),
         customer_id |-> PyGet(obj, "customer")]]

\* lines 52-116: the handler from a verified event on
Normalize(stripe_event, received_at) ==
    LET valid == ValidLines(stripe_event)
        Raise(e) == Outcome(e, valid, NoLocals)
        data == PyOr(PyGet(stripe_event, "data"), EmptyDict)
        object == PyGet(data, "object")
    IN IF IsExc(object) THEN Raise(object)
       ELSE LET obj == PyOr(object, EmptyDict)
            IN IF obj.t # "dict" THEN Raise(PyExc("AttributeError"))
               ELSE LET receipt_email == ReceiptEmail(obj)
                    IN IF IsExc(receipt_email) THEN Raise(receipt_email)
                       ELSE LET normalized ==
                                    Normalized(stripe_event, obj, received_at, receipt_email)
                            IN IF IsExc(normalized.pii.email_token)
                               THEN Raise(normalized.pii.email_token)
                               ELSE IF IsExc(normalized.pii.customer_id_token)
                               THEN Raise(normalized.pii.customer_id_token)
                               ELSE Outcome(OkResponse,
                                       Append(valid, [tag |-> "NORMALIZED JSON:",
                                                      doc |-> normalized]),
                                       [receipt_email |-> receipt_email,
                                        customer_id |-> PyGet(obj, "customer")])

\* lines 29-34: the signature header looked up under the two spellings the code tries
SigHeader(event) ==
    LET headers == PyOr(PyGet(event, "headers"), EmptyDict)
    IN PyOr(PyGet(headers, stripe_signature), PyGet(headers, Stripe_Signature))

\* the mutant of MissingSecret: "if endpoint_secret is None"
MissingSecret_IsNone(endpoint_secret) == endpoint_secret = PyNone

\* line 26: not endpoint_secret
MissingSecret(endpoint_secret) == ~Truthy(endpoint_secret)

\* the mutant of OnVerifyError: the broad except clause catches every exception
OnVerifyError_Broad(exc) ==
    Outcome(Response(500, exc.e), << [tag |-> "Verify error:", val |-> exc] >>, NoLocals)

\* lines 45-50: the two except clauses around construct_event
OnVerifyError(exc) ==
    IF exc = PyExc("SignatureVerificationError")
    THEN Outcome(Response(401, "Invalid signature"),
                 << [tag |-> "INVALID Stripe signature"] >>, NoLocals)
    ELSE Outcome(Response(500, exc.e),
                 << [tag |-> "Verify error:", val |-> exc] >>, NoLocals)

\* how the construct_event call of an invocation ended
VerifyOutcome(stripe_event) ==
    IF ~IsExc(stripe_event) THEN "succeeded"
    ELSE IF stripe_event = PyExc("SignatureVerificationError")
    THEN "SignatureVerificationError"
    ELSE "Exception"

\* lambda_handler (lines 23-116): what the invocation did, and how its
\* construct_event call ended ("not_attempted" when the call was never made)
lambda_handler(event, env, received_at) ==
    LET endpoint_secret == PyGet(env, "STRIPE_WEBHOOK_SECRET")
        Done(verify, o) ==
            [ret |-> o.ret, out |-> o.out, locals |-> o.locals, verify |-> verify]
    IN IF MissingSecret(endpoint_secret)
       THEN Done("not_attempted",
                 Outcome(Response(500, "Missing STRIPE_WEBHOOK_SECRET env"), << >>, NoLocals))
       ELSE LET sig_header == SigHeader(event)
            IN IF ~Truthy(sig_header)
               THEN Done("not_attempted",
                         Outcome(Response(400, "Missing stripe-signature header"),
                                 << >>, NoLocals))
               ELSE LET payload == get_raw_body(event)
                    IN IF IsExc(payload)
                       THEN Done("not_attempted", Outcome(payload, << >>, NoLocals))
                       ELSE LET stripe_event ==
                                    construct_event(payload, sig_header, endpoint_secret)
                            IN Done(VerifyOutcome(stripe_event),
                                    IF IsExc(stripe_event)
                                    THEN OnVerifyError(stripe_event)
                                    ELSE Normalize(stripe_event, received_at))

-----------------------------------------------------------------------------
(* The environment and the requests delivered to the handler *)

Secret == PyStr(<<"w","h","s","e","c">>)
OldSecret == PyStr(<<"o","l","d">>)

\* STRIPE_WEBHOOK_SECRET unset, set to the empty string, set
Environs ==
    { EmptyDict,
      PyDict("STRIPE_WEBHOOK_SECRET" :> PyStr(<< >>)),
      PyDict("STRIPE_WEBHOOK_SECRET" :> Secret) }

Usd == PyStr(<<"u","s","d">>)
Cus1 == PyStr(<<"c","u","s","_","1">>)
Pi1 == PyStr(<<"p","i","_","1">>)
Pi2 == PyStr(<<"p","i","_","2">>)
Ch1 == PyStr(<<"c","h","_","1">>)
Ch2 == PyStr(<<"c","h","_","2">>)

\* obj with key k set to v
With(obj, k, v) == PyDict((k :> v) @@ obj.d)

\* a Stripe event around data.object
Event(type, obj) ==
    PyDict(("id" :> PyStr(<<"e","v","t","_","1">>)) @@ ("type" :> PyStr(type))
           @@ ("data" :> PyDict("object" :> obj)))

ChargeObj ==
    PyDict(("id" :> Ch1) @@ ("object" :> PyStr(<<"c","h","a","r","g","e">>))
           @@ ("currency" :> Usd) @@ ("status" :> PyStr(<<"p","a","i","d">>))
           @@ ("created" :> PyInt(1699999999)))

ChargeEvent(obj) == Event(<<"c","h","a","r","g","e">>, obj)

\* the three amount fields: null/absent, zero, an integer, a string
AmountObjs ==
    { With(With(With(ChargeObj, "amount_received", ar), "amount", a), "amount_total", at) :
        ar \in {PyNone, PyInt(0), PyInt(1000)},
        a  \in {PyNone, PyInt(500), PyStr(<<"5","0","0">>)},
        at \in {PyNone, PyInt(2500)} }

\* the three places a receipt email is looked up
EmailObjs ==
      { With(ChargeObj, "receipt_email", PyStr(e)) :
          e \in { << >>, <<" ">>, <<" ","A","@","b"," ">>, <<"a","@","b">>, <<"c","@","d">> } }
 \cup { With(With(ChargeObj, "receipt_email", PyStr(<< >>)), "customer_email", PyStr(<<"A","@","B">>)) }
 \cup { With(ChargeObj, "customer_details", d) :
          d \in { EmptyDict,
                  PyDict("email" :> PyStr(<<"a","@","b">>)),
                  PyDict("email" :> PyStr(<< >>)),
                  PyDict("email" :> PyInt(7)),
                  PyStr(<<"x">>) } }

\* the customer field: absent, a string id, an expanded customer object
CustomerObjs ==
      { ChargeObj }
 \cup { With(ChargeObj, "customer", c) :
          c \in { PyStr(<< >>), PyStr(<<" ">>), Cus1, PyStr(<<"C","U","S","_","1"," ">>),
                  PyDict("id" :> Cus1) } }

\* payment intent / charge references
RefObjs ==
    { With(With(With(ChargeObj, "object", PyStr(PAYMENT_INTENT)), "id", Pi1), "payment_intent", Pi2),
      With(ChargeObj, "payment_intent", Pi2),
      With(With(ChargeObj, "charge", Ch1), "latest_charge", Ch2),
      With(ChargeObj, "latest_charge", Ch2) }

\* a checkout session carrying both a customer and a customer_details email
CheckoutObj ==
    PyDict(("id" :> PyStr(<<"c","s","_","1">>)) @@ ("amount_total" :> PyInt(2500))
           @@ ("currency" :> Usd) @@ ("customer" :> Cus1)
           @@ ("customer_details" :> PyDict("email" :> PyStr(<<"A","@","B">>))))

\* events whose data / data.object is missing, null or not a mapping
ShapeEvents ==
    { PyDict(("id" :> PyStr(<<"e","v","t","_","2">>)) @@ ("type" :> PyStr(<<"p","i","n","g">>))),
      PyDict(("id" :> PyStr(<<"e","v","t","_","2">>)) @@ ("data" :> PyNone)),
      PyDict(("id" :> PyStr(<<"e","v","t","_","2">>)) @@ ("data" :> PyStr(<<"x">>))),
      PyDict(("id" :> PyStr(<<"e","v","t","_","2">>)) @@ ("data" :> EmptyDict)),
      ChargeEvent(PyNone),
      ChargeEvent(PyStr(<<"x">>)) }

\* the request API Gateway hands over for a webhook Stripe signed with `secret`
SignedRequest(stripe_event, secret) ==
    PyDict(("headers" :> PyDict(stripe_signature :> PySig(PyBytes(stripe_event), secret)))
           @@ ("body" :> PyText(PyBytes(stripe_event), PyExc("binascii.Error")))
           @@ ("isBase64Encoded" :> PyBool(FALSE)))

PayloadEvents ==
    { ChargeEvent(o) : o \in AmountObjs \cup EmailObjs \cup CustomerObjs \cup RefObjs }
    \cup { Event(<<"c","h","e","c","k","o","u","t">>, CheckoutObj) }
    \cup ShapeEvents

\* validly signed requests over every payload shape
PayloadRequests == { SignedRequest(e, Secret) : e \in PayloadEvents }

Evt1 == ChargeEvent(With(With(ChargeObj, "amount", PyInt(500)), "customer", Cus1))
Evt1Bytes == PyBytes(Evt1)
GoodSig == PySig(Evt1Bytes, Secret)

\* body texts: the JSON itself, its base64 text, text that is neither, text with bad padding
PlainBody == PyText(Evt1Bytes, PyExc("binascii.Error"))
B64Body == PyText(PyBytes(PyStr(<<"e","y","J","=">>)), Evt1Bytes)
JunkBody == PyText(PyBytes(PyStr(<<"j","u","n","k">>)), PyBytes(PyStr(<<"8e","e9","e4">>)))
BadB64Body == PyText(PyBytes(PyStr(<<"a","b","c">>)), PyExc("binascii.Error"))

Request(headers, body, isBase64Encoded) ==
    PyDict(("headers" :> headers) @@ ("body" :> body) @@ ("isBase64Encoded" :> isBase64Encoded))

\* header mappings: every casing of the name, empty and malformed values
HeaderCases ==
    { PyNone, EmptyDict,
      PyDict(<<"h","o","s","t">> :> PyStr(<<"x">>)),
      PyDict(stripe_signature :> GoodSig),
      PyDict(Stripe_Signature :> GoodSig),
      PyDict(Upper(stripe_signature) :> GoodSig),
      PyDict([stripe_signature EXCEPT ![1] = "S"] :> GoodSig),
      PyDict(stripe_signature :> PyStr(<< >>)),
      PyDict((stripe_signature :> PyStr(<< >>)) @@ (Stripe_Signature :> GoodSig)),
      PyDict(stripe_signature :> PyStr(<<"t","=">>)),
      PyDict(stripe_signature :> PySig(Evt1Bytes, OldSecret)) }

\* body cases under a header that signs Evt1 (or the body actually sent)
BodyCases ==
    { Request(PyDict(stripe_signature :> GoodSig), B64Body, PyBool(TRUE)),
      Request(PyDict(stripe_signature :> GoodSig), B64Body, PyBool(FALSE)),
      Request(PyDict(stripe_signature :> GoodSig), PlainBody, PyBool(TRUE)),
      Request(PyDict(stripe_signature :> GoodSig), BadB64Body, PyBool(TRUE)),
      Request(PyDict(stripe_signature :> GoodSig), PyNone, PyBool(FALSE)),
      Request(PyDict(stripe_signature :> GoodSig), PyNone, PyBool(TRUE)),
      Request(PyDict(stripe_signature :> PySig(JunkBody.utf8, Secret)), JunkBody, PyBool(FALSE)),
      PyDict("headers" :> PyDict(stripe_signature :> GoodSig)),
      PyDict("headers" :> PyDict(stripe_signature :> PySig(EmptyText.utf8, Secret))),
      Request(EmptyDict, BadB64Body, PyBool(TRUE)),
      Request(EmptyDict, PyNone, PyBool(FALSE)) }

\* requests exercising the configuration, header, body and verification paths,
\* and a few validly signed payloads
ControlRequests ==
    { Request(h, PlainBody, PyBool(FALSE)) : h \in HeaderCases }
    \cup BodyCases
    \cup { SignedRequest(ChargeEvent(o), Secret) :
             o \in { ChargeObj,
                     With(ChargeObj, "customer", PyDict("id" :> Cus1)),
                     With(ChargeObj, "receipt_email", PyStr(<<"a","@","b">>)) } }

\* arguments of sha256_token
TokenChars == {" ", "A", "a", "@"}
TokenInputs ==
    {PyNone} \cup { PyStr(s) : s \in UNION { [1..n -> TokenChars] : n \in 0..MaxLen } }

-----------------------------------------------------------------------------
(* State machine *)

NotRun == [t |-> "notrun"]

NoInvocation ==
    [request |-> PyNone, ret |-> PyNone, out |-> << >>, verify |-> "not_attempted"]

InitHandler ==
    /\ stdout = << >>
    /\ last = NoInvocation
    /\ resolved = << >>
    /\ nInvocations = 0
    /\ nVerified = 0

Init ==
    /\ environ \in Environs
    /\ InitHandler
    /\ tokIn = PyNone
    /\ tokOut = NotRun

IsDocLine(line) == line.tag = "NORMALIZED JSON:"

\* one invocation of lambda_handler on `event`
Invoke(event) ==
    /\ nInvocations < MaxInvocations
    /\ LET r == lambda_handler(event, environ, TimeTime(nInvocations))
       IN /\ stdout' = stdout \o r.out
          /\ last' = [request |-> event, ret |-> r.ret, out |-> r.out, verify |-> r.verify]
          /\ resolved' = IF \E i \in DOMAIN r.out : IsDocLine(r.out[i])
                         THEN Append(resolved, r.locals)
                         ELSE resolved
          /\ nVerified' = IF r.verify = "succeeded" THEN nVerified + 1 ELSE nVerified
    /\ nInvocations' = nInvocations + 1
    /\ UNCHANGED <<environ, tokIn, tokOut>>

Next == \E event \in ControlRequests : Invoke(event)

Spec == Init /\ [][Next]_vars

\* validly signed requests over the payload shapes
NextNormalize == \E event \in PayloadRequests : Invoke(event)

SpecNormalize == Init /\ [][NextNormalize]_vars

\* the pure function sha256_token applied to one argument
InitToken ==
    /\ environ = EmptyDict
    /\ InitHandler
    /\ tokIn \in TokenInputs
    /\ tokOut = NotRun

Tokenize ==
    /\ tokOut = NotRun
    /\ tokOut' = sha256_token(tokIn)
    /\ UNCHANGED <<environ, stdout, last, resolved, nInvocations, nVerified, tokIn>>

NextToken == Tokenize

SpecToken == InitToken /\ [][NextToken]_vars

-----------------------------------------------------------------------------
(* Properties *)

Invoked == nInvocations > 0
Returned(status) == last.ret.t = "response" /\ last.ret.statusCode = status
SecretSet == Truthy(PyGet(environ, "STRIPE_WEBHOOK_SECRET"))

\* the documents printed so far, oldest first; resolved[i] belongs to Docs[i]
Docs == SelectSeq(stdout, IsDocLine)
LastDocs == SelectSeq(last.out, IsDocLine)

\* the data.object the handler reads from the payload of a plain-text request
ObjectOf(event) ==
    LET stripe_event == event.d["body"].utf8.b
        data == PyOr(PyGet(stripe_event, "data"), EmptyDict)
    IN PyOr(PyGet(data, "object"), EmptyDict)

\* a signature header is present under some casing of its name, with a value
HasSignatureHeader(event) ==
    LET headers == PyOr(PyGet(event, "headers"), EmptyDict)
    IN \E name \in DOMAIN headers.d :
          Lower(name) = stripe_signature /\ Truthy(headers.d[name])

\* the token the specification prescribes for a raw value
TokenOf(raw) ==
    IF raw.t = "str" /\ Len(raw.s) > 0
    THEN Sha256Hexdigest(EncodeUtf8(Lower(Strip(raw.s))))
    ELSE PyNone

\* every value a document carries
Leaves(doc) ==
    { doc.provider, doc.source, doc.event_id, doc.event_type, doc.received_at,
      doc.transaction.transaction_id, doc.transaction.amount_minor,
      doc.transaction.currency, doc.transaction.status, doc.transaction.created,
      doc.pii.email_token, doc.pii.customer_id_token,
      doc.refs.payment_intent_id, doc.refs.charge_id, doc.refs.customer_id }

\* C1: an invocation prints exactly one normalized document when its signature
\* verification succeeded and none otherwise, so the number of documents printed
\* over all invocations equals the number of successful verifications.
C1_OneDocumentPerVerified ==
    /\ Len(Docs) = nVerified
    /\ Invoked => Len(LastDocs) = (IF last.verify = "succeeded" THEN 1 ELSE 0)

\* C2: with STRIPE_WEBHOOK_SECRET unset or empty every request is answered 500
\* and construct_event is never called.
C2_MissingSecretIs500 ==
    (Invoked /\ ~SecretSet) =>
        /\ Returned(500)
        /\ last.verify = "not_attempted"

\* C2 witness: a validly signed request answered 500 because the secret is empty.
C2_Witness ==
    /\ Invoked
    /\ environ = PyDict("STRIPE_WEBHOOK_SECRET" :> PyStr(<< >>))
    /\ last.request = Request(PyDict(stripe_signature :> GoodSig), PlainBody, PyBool(FALSE))
    /\ Returned(500)

\* C3: with the secret set, the answer is 400 exactly when the headers hold no
\* non-empty signature header under case-insensitive name matching.
C3_400IffNoSignatureHeader ==
    (Invoked /\ SecretSet) =>
        (Returned(400) <=> ~HasSignatureHeader(last.request))

\* C4: a signature verification failure is answered 401 and only the opaque
\* failure note is printed.
C4_InvalidSignatureIs401 ==
    (Invoked /\ last.verify = "SignatureVerificationError") =>
        /\ Returned(401)
        /\ last.out = << [tag |-> "INVALID Stripe signature"] >>

\* C4 witness: a request signed under another secret was rejected.
C4_Witness ==
    /\ Invoked
    /\ last.request = Request(PyDict(stripe_signature :> PySig(Evt1Bytes, OldSecret)),
                              PlainBody, PyBool(FALSE))
    /\ last.verify = "SignatureVerificationError"
    /\ Returned(401)

\* C5: every request whose signature verifies is answered 200 {"ok": true} with a
\* JSON content type, whatever the shape of the verified payload.
C5_VerifiedIs200 ==
    (Invoked /\ last.verify = "succeeded") => last.ret = OkResponse

\* C6: amount_minor of every printed document is an integer: the first truthy one
\* of amount_received, amount, amount_total, and 0 when there is none.
C6_AmountMinorIsInteger ==
    /\ \A i \in DOMAIN Docs : Docs[i].doc.transaction.amount_minor.t = "int"
    /\ \A i \in DOMAIN LastDocs :
          LET obj == ObjectOf(last.request)
              cands == << PyGet(obj, "amount_received"), PyGet(obj, "amount"),
                          PyGet(obj, "amount_total") >>
              hits == {k \in 1..3 : Truthy(cands[k])}
          IN LastDocs[i].doc.transaction.amount_minor =
                IF hits = {} THEN PyInt(0)
                ELSE cands[CHOOSE k \in hits : \A m \in hits : k <= m]

C8_TokensAgreeWithNormalizedValues ==
    \A i \in DOMAIN Docs : \A j \in DOMAIN Docs :
        /\ (resolved[i].receipt_email.t = "str" /\ resolved[j].receipt_email.t = "str") =>
              ( (Lower(Strip(resolved[i].receipt_email.s))
                    = Lower(Strip(resolved[j].receipt_email.s)))
                <=> (Docs[i].doc.pii.email_token = Docs[j].doc.pii.email_token) )
        /\ (resolved[i].customer_id.t = "str" /\ resolved[j].customer_id.t = "str") =>
              ( (Lower(Strip(resolved[i].customer_id.s))
                    = Lower(Strip(resolved[j].customer_id.s)))
                <=> (Docs[i].doc.pii.customer_id_token = Docs[j].doc.pii.customer_id_token) )

\* C9: sha256_token returns absent for None and "", and a token it returns is the
\* digest of a non-empty normalized value, never the digest of the empty string.
C9_NeverDigestOfEmpty ==
    (tokOut # NotRun) =>
        /\ (tokIn = PyNone \/ tokIn = PyStr(<< >>)) => tokOut = PyNone
        /\ tokOut # Sha256Hexdigest(EncodeUtf8(<< >>))

\* C10: every invocation ends by returning a response whose status is one of
\* 200, 400, 401, 500; no exception leaves the handler.
C10_AlwaysResponds ==
    Invoked =>
        /\ last.ret.t = "response"
        /\ last.ret.statusCode \in {200, 400, 401, 500}

====
